---- MODULE Spec2Model ----
(***************************************************************************)
(* Model of the NAICS generator scripts clean_naics.py, extract_naics.py   *)
(* and generate_naics.py, and of the helper functions they write into      *)
(* shared/naics-data.ts.  Strings are sequences of one-character strings,  *)
(* so slicing, escaping and code-point comparison are computed as the      *)
(* scripts compute them.                                                   *)
(***************************************************************************)
EXTENDS Integers, Sequences, FiniteSets, TLC

VARIABLES
    script,      \* which of the three scripts runs
    workbook,    \* state of attached_assets/NAICS Lookup.xlsx
    sheet,       \* the rows of the worksheet the script reads
    pc,          \* position in the script body
    df,          \* the data frame after loading and cleaning
    sectors_list,   \* sector records built before the output is opened
    categories,     \* category rows selected before the output is opened
    facility_types, \* facility-type rows selected before the output is opened
    outPrior,    \* shared/naics-data.ts as it was before the run
    outFile,     \* shared/naics-data.ts now
    result,      \* last call of a generated helper and what it returned
    raw,         \* a title string handed to clean_title
    fpc,         \* position of the title normalisation
    cleaned,     \* clean_title(raw)
    literal      \* the double-quoted literal written for the cleaned title

vars == <<script, workbook, sheet, pc, df, sectors_list, categories,
          facility_types, outPrior, outFile, result, raw, fpc, cleaned, literal>>

pipeVars == <<script, workbook, sheet, pc, df, sectors_list, categories,
              facility_types, outPrior, outFile, result>>

strVars == <<raw, fpc, cleaned, literal>>

\* ---------------------------------------------------------------- bounds
MaxRows == 3
MaxLen == 3

\* ---------------------------------------------------------------- characters
Ascii ==
    <<" ", "!", "\"", "#", "$", "%", "&", "'", "(", ")", "*", "+", ",", "-", ".", "/",
      "0", "1", "2", "3", "4", "5", "6", "7", "8", "9", ":", ";", "<", "=", ">", "?",
      "@", "A", "B", "C", "D", "E", "F", "G", "H", "I", "J", "K", "L", "M", "N", "O",
      "P", "Q", "R", "S", "T", "U", "V", "W", "X", "Y", "Z", "[", "\\", "]", "^", "_",
      "(grave)", "a", "b", "c", "d", "e", "f", "g", "h", "i", "j", "k", "l", "m", "n", "o",
      "p", "q", "r", "s", "t", "u", "v", "w", "x", "y", "z", "{", "|", "}", "~">>

\* code point of a character, the key Python compares strings by
Ord(c) ==
    IF c = "\t" THEN 9
    ELSE 31 + (CHOOSE i \in 1..Len(Ascii) : Ascii[i] = c)

\* Python's str < str: lexicographic by code point, a proper prefix is smaller
RECURSIVE StrLess(_, _)
StrLess(a, b) ==
    IF b = <<>> THEN FALSE
    ELSE IF a = <<>> THEN TRUE
    ELSE IF a[1] = b[1] THEN StrLess(Tail(a), Tail(b))
    ELSE Ord(a[1]) < Ord(b[1])

\* the characters \s and str.strip() treat as whitespace
IsSpace(c) == c \in {" ", "\t"}

\* str[:n]
Prefix(s, n) == SubSeq(s, 1, IF Len(s) < n THEN Len(s) ELSE n)

RECURSIVE LStrip(_)
LStrip(s) ==
    IF s # <<>> /\ IsSpace(s[1]) THEN LStrip(Tail(s)) ELSE s

RECURSIVE RStrip(_)
RStrip(s) ==
    IF s # <<>> /\ IsSpace(s[Len(s)]) THEN RStrip(SubSeq(s, 1, Len(s) - 1)) ELSE s

\* str.strip()
Strip(s) == LStrip(RStrip(s))

\* re.sub(r'T\s*$', '', title): the leftmost position where a T is followed
\* only by whitespace up to the end of the string starts the match, and the
\* match runs to the end.
re_sub_marker(title) ==
    LET starts == {i \in 1..Len(title) :
                     /\ title[i] = "T"
                     /\ \A j \in (i + 1)..Len(title) : IsSpace(title[j])}
    IN IF starts = {} THEN title
       ELSE SubSeq(title, 1, (CHOOSE i \in starts : \A k \in starts : i <= k) - 1)

\* faulty variant: the .strip() call is lost
clean_title_nostrip(title) == re_sub_marker(title)

clean_title(title) == Strip(re_sub_marker(title))

\* str.replace(ch, '\\' + ch): every occurrence of ch gets a backslash before it
RECURSIVE Replace(_, _)
Replace(s, ch) ==
    IF s = <<>> THEN <<>>
    ELSE IF s[1] = ch THEN <<"\\", ch>> \o Replace(Tail(s), ch)
    ELSE <<s[1]>> \o Replace(Tail(s), ch)

\* .replace('"', '\\"').replace("'", "\\'")
Escape(title) == Replace(Replace(title, "\""), "'")

\* the emitter's f-string puts the escaped title between double quotes
Quote(text) == <<"\"">> \o text \o <<"\"">>

\* How the generated module's reader scans a double-quoted literal that
\* starts at text[1]: a backslash takes the next character with it, the
\* first bare double quote closes the literal.  ok is FALSE when the text
\* ends before a closing quote; end is the position of the closing quote.
RECURSIVE ScanLiteral(_, _, _)
ScanLiteral(text, i, acc) ==
    IF i > Len(text) THEN [ok |-> FALSE, value |-> acc, end |-> i]
    ELSE IF text[i] = "\"" THEN [ok |-> TRUE, value |-> acc, end |-> i]
    ELSE IF text[i] = "\\"
         THEN IF i + 1 > Len(text) THEN [ok |-> FALSE, value |-> acc, end |-> i]
              ELSE ScanLiteral(text, i + 2, Append(acc, text[i + 1]))
    ELSE ScanLiteral(text, i + 1, Append(acc, text[i]))

ReadLiteral(text) == ScanLiteral(text, 2, <<>>)

\* the title the consumer sees for an escaped title written by the emitter
Decoded(text) == ReadLiteral(Quote(text)).value

\* ---------------------------------------------------------------- constants
Manufacturing == <<"M", "a", "n", "u", "f", "a", "c", "t", "u", "r", "i", "n", "g">>
Title11 == <<"A", "g", "r", "i", "c", "u", "l", "t", "u", "r", "e", ",", " ", "f", "o", "r", "e", "s", "t", "r", "y", ",", " ", "f", "i", "s", "h", "i", "n", "g", " ", "a", "n", "d", " ", "h", "u", "n", "t", "i", "n", "g">>
Title21 == <<"M", "i", "n", "i", "n", "g", ",", " ", "q", "u", "a", "r", "r", "y", "i", "n", "g", ",", " ", "a", "n", "d", " ", "o", "i", "l", " ", "a", "n", "d", " ", "g", "a", "s", " ", "e", "x", "t", "r", "a", "c", "t", "i", "o", "n">>
Title22 == <<"U", "t", "i", "l", "i", "t", "i", "e", "s">>
Title23 == <<"C", "o", "n", "s", "t", "r", "u", "c", "t", "i", "o", "n">>
Title48 == <<"T", "r", "a", "n", "s", "p", "o", "r", "t", "a", "t", "i", "o", "n", " ", "a", "n", "d", " ", "w", "a", "r", "e", "h", "o", "u", "s", "i", "n", "g">>
Title56 == <<"A", "d", "m", "i", "n", "i", "s", "t", "r", "a", "t", "i", "v", "e", " ", "a", "n", "d", " ", "s", "u", "p", "p", "o", "r", "t", ",", " ", "w", "a", "s", "t", "e", " ", "m", "a", "n", "a", "g", "e", "m", "e", "n", "t", " ", "a", "n", "d", " ", "r", "e", "m", "e", "d", "i", "a", "t", "i", "o", "n", " ", "s", "e", "r", "v", "i", "c", "e", "s">>
UnknownNAICS == <<"U", "n", "k", "n", "o", "w", "n", " ", "N", "A", "I", "C", "S", " ", "c", "o", "d", "e">>
UndefinedStr == <<"u", "n", "d", "e", "f", "i", "n", "e", "d">>
NanStr == <<"n", "a", "n">>
Sep == <<" ", ">", " ">>
Code3133 == <<"3", "1", "-", "3", "3">>

\* eligible_sectors, in the order the scripts list it
eligible_sectors ==
    << <<"1", "1">>, <<"2", "1">>, <<"2", "2">>, <<"2", "3">>, <<"3", "1">>,
       <<"3", "2">>, <<"3", "3">>, <<"4", "8">>, <<"5", "6">> >>

Eligible == {eligible_sectors[i] : i \in DOMAIN eligible_sectors}

\* the codes the scripts test with  code in ['31', '32', '33']
ManufacturingCodes == {<<"3", "1">>, <<"3", "2">>, <<"3", "3">>}

Scripts == {"clean_naics", "extract_naics", "generate_naics"}

\* ---------------------------------------------------------------- input
\* Worksheet rows the scripts are run on.  hasCode is FALSE for a row whose
\* code cell is empty; level is the Level column generate_naics.py reads
\* (the other two scripts never look at it).
Row(c, t, l) == [hasCode |-> TRUE, code |-> c, title |-> t, level |-> l]

Catalogue ==
    { Row(<<"1", "1">>, <<"A", " ", "T">>, 2),
      Row(<<"3", "1">>, <<"M">>, 2),
      Row(<<"3", "2">>, <<"W">>, 2),
      Row(Code3133, <<"M", "f">>, 2),
      Row(<<"5", "2">>, <<"F">>, 2),
      Row(<<"1", "1", "1">>, <<"A", "'", "B">>, 3),
      Row(<<"3", "2", "1">>, <<"A", "Z">>, 3),
      Row(<<"1", "1", "1", "1", "1", "0">>, <<"S">>, 6),
      Row(<<"3", "2", "1", "1", "1", "1">>, <<"L">>, 5),
      Row(<<"1", "1", ".", "0">>, <<"G">>, 2),
      [hasCode |-> FALSE, code |-> <<>>, title |-> <<"x">>, level |-> 2] }

SeqsUpTo(S, n) == UNION {[1..k -> S] : k \in 0..n}

\* ---------------------------------------------------------------- loading
\* str.replace('.0', '', regex=False): every occurrence, left to right
RECURSIVE RemoveDotZero(_)
RemoveDotZero(s) ==
    IF Len(s) < 2 THEN s
    ELSE IF s[1] = "." /\ s[2] = "0" THEN RemoveDotZero(SubSeq(s, 3, Len(s)))
    ELSE <<s[1]>> \o RemoveDotZero(Tail(s))

\* clean_naics.py / extract_naics.py: dropna on the code column, then str
LoadStructure(rows) ==
    LET kept == SelectSeq(rows, LAMBDA r : r.hasCode)
    IN [i \in 1..Len(kept) |->
          [code |-> kept[i].code, title |-> kept[i].title, level |-> kept[i].level]]

\* generate_naics.py: astype(str) first, so an empty cell becomes "nan" and
\* the dropna after it drops nothing; then every ".0" is removed
LoadScian(rows) ==
    [i \in 1..Len(rows) |->
       [code  |-> RemoveDotZero(IF rows[i].hasCode THEN rows[i].code ELSE NanStr),
        title |-> rows[i].title,
        level |-> rows[i].level]]

LoadFrame(s, rows) ==
    IF s = "generate_naics" THEN LoadScian(rows) ELSE LoadStructure(rows)

\* ---------------------------------------------------------------- sorting
Rec(c, t, l, p) == [code |-> c, title |-> t, level |-> l, parent |-> p]

\* list.sort(key=lambda x: x['title']) is stable: an element goes before the
\* first element whose title is strictly greater
RECURSIVE InsertByTitle(_, _)
InsertByTitle(x, sorted) ==
    IF sorted = <<>> THEN <<x>>
    ELSE IF StrLess(x.title, sorted[1].title) THEN <<x>> \o sorted
    ELSE <<sorted[1]>> \o InsertByTitle(x, Tail(sorted))

RECURSIVE SortFrom(_, _)
SortFrom(list, acc) ==
    IF list = <<>> THEN acc
    ELSE SortFrom(Tail(list), InsertByTitle(list[1], acc))

SortByTitle(list) == SortFrom(list, <<>>)

\* ---------------------------------------------------------------- sectors
\* clean_naics.py 30-39 / extract_naics.py 23-33: one record per row, except
\* that the rows 31, 32, 33 give one "31-33" record where the first is met
RECURSIVE SectorLoop(_, _, _, _)
SectorLoop(rows, manufacturing_found, acc, doClean) ==
    IF rows = <<>> THEN acc
    ELSE LET code  == rows[1].code
             title == IF doClean THEN clean_title(rows[1].title) ELSE rows[1].title
         IN IF code \in ManufacturingCodes
            THEN IF ~manufacturing_found
                 THEN SectorLoop(Tail(rows), TRUE,
                                 Append(acc, Rec(Code3133, Manufacturing, 2, <<>>)), doClean)
                 ELSE SectorLoop(Tail(rows), manufacturing_found, acc, doClean)
            ELSE SectorLoop(Tail(rows), manufacturing_found,
                            Append(acc, Rec(code, title, 2, <<>>)), doClean)

\* df[len(code) == 2] then isin(eligible_sectors)
SectorsRaw(frame) ==
    SelectSeq(frame, LAMBDA r : Len(r.code) = 2 /\ r.code \in Eligible)

\* generate_naics.py 22-28: titles of the Level 2 rows, grouped by code[:2]
sector_groups(frame, code) ==
    LET rows == SelectSeq(frame, LAMBDA r : r.level = 2 /\ Prefix(r.code, 2) = code)
    IN [i \in 1..Len(rows) |-> rows[i].title]

\* generate_naics.py 36-51: the hard-coded title of a sector code
HardTitle(code, titles) ==
    IF code = <<"1", "1">> THEN Title11
    ELSE IF code = <<"2", "1">> THEN Title21
    ELSE IF code = <<"2", "2">> THEN Title22
    ELSE IF code = <<"2", "3">> THEN Title23
    ELSE IF code \in ManufacturingCodes THEN Manufacturing
    ELSE IF code = <<"4", "8">> THEN Title48
    ELSE IF code = <<"5", "6">> THEN Title56
    ELSE titles[1]

\* generate_naics.py 31-52: one (code, title) per allow-listed code that has
\* a group, in allow-list order
RECURSIVE Consolidate(_, _, _)
Consolidate(frame, codes, acc) ==
    IF codes = <<>> THEN acc
    ELSE LET code   == codes[1]
             titles == sector_groups(frame, code)
         IN IF titles # <<>>
            THEN Consolidate(frame, Tail(codes),
                             Append(acc, Rec(code, HardTitle(code, titles), 2, <<>>)))
            ELSE Consolidate(frame, Tail(codes), acc)

BuildSectors(s, frame) ==
    IF s = "clean_naics" THEN SortByTitle(SectorLoop(SectorsRaw(frame), FALSE, <<>>, TRUE))
    ELSE IF s = "extract_naics" THEN SectorLoop(SectorsRaw(frame), FALSE, <<>>, FALSE)
    ELSE Consolidate(frame, eligible_sectors, <<>>)

\* the rows kept for the second and third table before the output is opened:
\* by code length and allow-listed prefix, or (generate_naics.py) by Level
SelectRows(s, frame, n) ==
    IF s = "generate_naics" THEN SelectSeq(frame, LAMBDA r : r.level = n)
    ELSE SelectSeq(frame, LAMBDA r : Len(r.code) = n /\ Prefix(r.code, 2) \in Eligible)

\* ---------------------------------------------------------------- emission
\* if parent in ['31', '32', '33']: parent = '31-33'
FoldParent(parent) == IF parent \in ManufacturingCodes THEN Code3133 ELSE parent

SectorLines(list) ==
    [i \in 1..Len(list) |-> Rec(list[i].code, Escape(list[i].title), 2, <<>>)]

CategoryLines(s, rows) ==
    IF s = "clean_naics"
    THEN SortByTitle([i \in 1..Len(rows) |->
             Rec(rows[i].code, Escape(clean_title(rows[i].title)), 3,
                 FoldParent(Prefix(rows[i].code, 2)))])
    ELSE IF s = "extract_naics"
    THEN [i \in 1..Len(rows) |->
             Rec(rows[i].code, Escape(rows[i].title), 3,
                 FoldParent(Prefix(rows[i].code, 2)))]
    ELSE LET kept == SelectSeq(rows, LAMBDA r :
                         Len(r.code) >= 2 /\ Prefix(r.code, 2) \in Eligible)
         IN [i \in 1..Len(kept) |->
               Rec(kept[i].code, Escape(kept[i].title), 3, Prefix(kept[i].code, 2))]

TypeLines(s, rows) ==
    IF s = "clean_naics"
    THEN SortByTitle([i \in 1..Len(rows) |->
             Rec(rows[i].code, Escape(clean_title(rows[i].title)), 6,
                 Prefix(rows[i].code, 3))])
    ELSE IF s = "extract_naics"
    THEN [i \in 1..Len(rows) |->
             Rec(rows[i].code, Escape(rows[i].title), 6, Prefix(rows[i].code, 3))]
    ELSE LET kept == SelectSeq(rows, LAMBDA r :
                         Len(r.code) >= 2 /\ Prefix(r.code, 2) \in Eligible)
         IN [i \in 1..Len(kept) |->
               Rec(kept[i].code, Escape(kept[i].title), 6, Prefix(kept[i].code, 3))]

\* the output file: whether it exists, and the pieces written to it in order
Absent == [exists |-> FALSE, chunks |-> <<>>]
Old == [exists |-> TRUE, chunks |-> <<Rec(<<>>, <<"o", "l", "d">>, 0, <<>>)>>]
Text(name) == Rec(<<>>, name, 0, <<>>)
HeaderText == <<"h", "e", "a", "d">>
HelpersText == <<"h", "e", "l", "p">>

\* ---------------------------------------------------------------- generated module
\* the three arrays as the reader of the generated module gets them: the
\* record lines of each level, titles read back from their literals
Table(file, level) ==
    LET lines == SelectSeq(file.chunks, LAMBDA c : c.level = level)
    IN [i \in 1..Len(lines) |->
          Rec(lines[i].code, Decoded(lines[i].title), level, lines[i].parent)]

FACILITY_SECTORS == Table(outFile, 2)
FACILITY_CATEGORIES == Table(outFile, 3)
FACILITY_TYPES == Table(outFile, 6)

\* Array.prototype.find: the first element that matches, as a sequence of
\* one element, or the empty sequence for undefined
FindCode(table, code) ==
    LET hits == SelectSeq(table, LAMBDA r : r.code = code)
    IN IF hits = <<>> THEN <<>> ELSE <<hits[1]>>

\* faulty variant: the lookup forgets the comparison of the parent
FindCodeAnyParent(table, code, parent) == FindCode(table, code)

FindCodeParent(table, code, parent) ==
    LET hits == SelectSeq(table, LAMBDA r : r.code = code /\ r.parent = parent)
    IN IF hits = <<>> THEN <<>> ELSE <<hits[1]>>

generateNAICSCode(sectorCode, categoryCode, typeCode) ==
    LET sector   == FindCode(FACILITY_SECTORS, sectorCode)
        category == FindCodeParent(FACILITY_CATEGORIES, categoryCode, sectorCode)
        type     == FindCodeParent(FACILITY_TYPES, typeCode, categoryCode)
    IN IF sector = <<>> \/ category = <<>> \/ type = <<>>
       THEN [threw |-> TRUE, value |-> <<>>]
       ELSE [threw |-> FALSE, value |-> typeCode]

\* ${x?.title}: the title, or the text "undefined" when x is undefined
TitleOrUndefined(found) == IF found = <<>> THEN UndefinedStr ELSE found[1].title

getNAICSDescription(naicsCode) ==
    LET type == FindCode(FACILITY_TYPES, naicsCode)
    IN IF type # <<>>
       THEN LET category == FindCode(FACILITY_CATEGORIES, type[1].parent)
                sector   == IF category = <<>> THEN <<>>
                            ELSE FindCode(FACILITY_SECTORS, category[1].parent)
            IN TitleOrUndefined(sector) \o Sep \o TitleOrUndefined(category)
                 \o Sep \o type[1].title
       ELSE UnknownNAICS

\* ---------------------------------------------------------------- the run
NoResult == [op |-> "none", args |-> <<>>, threw |-> FALSE, value |-> <<>>]

Init ==
    /\ script \in Scripts
    /\ workbook \in {"nofile", "nosheet", "ok"}
    /\ sheet \in (IF workbook = "ok" THEN SeqsUpTo(Catalogue, MaxRows) ELSE {<<>>})
    /\ pc = "start"
    /\ df = <<>>
    /\ sectors_list = <<>>
    /\ categories = <<>>
    /\ facility_types = <<>>
    /\ outPrior \in {Absent, Old}
    /\ outFile = outPrior
    /\ result = NoResult
    /\ raw = <<>>
    /\ fpc = "idle"
    /\ cleaned = <<>>
    /\ literal = <<>>

\* pd.read_excel(...) and the clean-up of the code column
ReadExcel ==
    /\ pc = "start"
    /\ workbook = "ok"
    /\ df' = LoadFrame(script, sheet)
    /\ pc' = "loaded"
    /\ UNCHANGED <<script, workbook, sheet, sectors_list, categories, facility_types,
                   outPrior, outFile, result, strVars>>

\* pd.read_excel raises (no such file, or no such worksheet): the script ends
ReadExcelFails ==
    /\ pc = "start"
    /\ workbook # "ok"
    /\ pc' = "aborted"
    /\ UNCHANGED <<script, workbook, sheet, df, sectors_list, categories,
                   facility_types, outPrior, outFile, result, strVars>>

\* everything between the load and the open: the sector list and the row
\* selections for the other two tables
Classify ==
    /\ pc = "loaded"
    /\ sectors_list' = BuildSectors(script, df)
    /\ categories' = SelectRows(script, df, 3)
    /\ facility_types' = SelectRows(script, df, 6)
    /\ pc' = "built"
    /\ UNCHANGED <<script, workbook, sheet, df, outPrior, outFile, result, strVars>>

\* faulty variant: the output is opened before the workbook is read
CanOpenEarly(p) == p \in {"start", "built"}

\* open('shared/naics-data.ts', 'w') is reached only after Classify
CanOpen(p) == p = "built"

\* open(..., 'w') truncates or creates the file; the header is written
OpenOutput ==
    /\ CanOpen(pc)
    /\ outFile' = [exists |-> TRUE, chunks |-> <<Text(HeaderText)>>]
    /\ pc' = "opened"
    /\ UNCHANGED <<script, workbook, sheet, df, sectors_list, categories,
                   facility_types, outPrior, result, strVars>>

WriteSectors ==
    /\ pc = "opened"
    /\ outFile' = [outFile EXCEPT !.chunks = @ \o SectorLines(sectors_list)]
    /\ pc' = "sectors"
    /\ UNCHANGED <<script, workbook, sheet, df, sectors_list, categories,
                   facility_types, outPrior, result, strVars>>

WriteCategories ==
    /\ pc = "sectors"
    /\ outFile' = [outFile EXCEPT !.chunks =
                      @ \o <<Text(HeaderText)>> \o CategoryLines(script, categories)]
    /\ pc' = "categories"
    /\ UNCHANGED <<script, workbook, sheet, df, sectors_list, categories,
                   facility_types, outPrior, result, strVars>>

WriteTypes ==
    /\ pc = "categories"
    /\ outFile' = [outFile EXCEPT !.chunks =
                      @ \o <<Text(HeaderText)>> \o TypeLines(script, facility_types)]
    /\ pc' = "types"
    /\ UNCHANGED <<script, workbook, sheet, df, sectors_list, categories,
                   facility_types, outPrior, result, strVars>>

\* the helper functions are written and the file is closed
WriteHelpers ==
    /\ pc = "types"
    /\ outFile' = [outFile EXCEPT !.chunks = @ \o <<Text(HelpersText)>>]
    /\ pc' = "done"
    /\ UNCHANGED <<script, workbook, sheet, df, sectors_list, categories,
                   facility_types, outPrior, result, strVars>>

\* arguments the generated helpers are called with
SectorArgs == {<<"1", "1">>, Code3133}
CategoryArgs == {<<"1", "1", "1">>, <<"3", "2", "1">>}
TypeArgs == {<<"1", "1", "1", "1", "1", "0">>, <<"3", "2", "1", "1", "1", "1">>}

\* a consumer of the generated module makes one call
CallGenerate ==
    /\ pc = "done"
    /\ \E s \in SectorArgs, c \in CategoryArgs, t \in TypeArgs :
         LET r == generateNAICSCode(s, c, t)
         IN result' = [op |-> "generateNAICSCode", args |-> <<s, c, t>>,
                       threw |-> r.threw, value |-> r.value]
    /\ pc' = "called"
    /\ UNCHANGED <<script, workbook, sheet, df, sectors_list, categories,
                   facility_types, outPrior, outFile, strVars>>

CallDescribe ==
    /\ pc = "done"
    /\ \E t \in TypeArgs :
         result' = [op |-> "getNAICSDescription", args |-> <<t>>,
                    threw |-> FALSE, value |-> getNAICSDescription(t)]
    /\ pc' = "called"
    /\ UNCHANGED <<script, workbook, sheet, df, sectors_list, categories,
                   facility_types, outPrior, outFile, strVars>>

Next ==
    \/ ReadExcel
    \/ ReadExcelFails
    \/ Classify
    \/ OpenOutput
    \/ WriteSectors
    \/ WriteCategories
    \/ WriteTypes
    \/ WriteHelpers
    \/ CallGenerate
    \/ CallDescribe

Spec == Init /\ [][Next]_vars

\* ---------------------------------------------------------------- titles alone
\* clean_title and the escaping applied to one title string
Alphabet == {"a", "T", " ", "\t", "\"", "'", "\\"}

InitStr ==
    /\ script = "none"
    /\ workbook = "nofile"
    /\ sheet = <<>>
    /\ pc = "idle"
    /\ df = <<>>
    /\ sectors_list = <<>>
    /\ categories = <<>>
    /\ facility_types = <<>>
    /\ outPrior = Absent
    /\ outFile = Absent
    /\ result = NoResult
    /\ raw \in SeqsUpTo(Alphabet, MaxLen)
    /\ fpc = "raw"
    /\ cleaned = <<>>
    /\ literal = <<>>

CleanTitle ==
    /\ fpc = "raw"
    /\ cleaned' = clean_title(raw)
    /\ fpc' = "cleaned"
    /\ UNCHANGED <<pipeVars, raw, literal>>

\* title: "{title}" with the two replace calls applied to the cleaned title
EmitTitle ==
    /\ fpc = "cleaned"
    /\ literal' = Quote(Escape(cleaned))
    /\ fpc' = "emitted"
    /\ UNCHANGED <<pipeVars, raw, cleaned>>

NextStr ==
    \/ CleanTitle
    \/ EmitTitle

SpecStr == InitStr /\ [][NextStr]_vars

\* ---------------------------------------------------------------- properties
Range(f) == {f[i] : i \in DOMAIN f}
Codes(table) == {table[i].code : i \in DOMAIN table}
Generated == pc \in {"done", "called"}

\* C1: every emitted category's parent is the code of an emitted sector, and
\* every emitted facility type's parent is the code of an emitted category.
C1_ReferentialClosure ==
    Generated =>
        /\ \A c \in Range(FACILITY_CATEGORIES) : c.parent \in Codes(FACILITY_SECTORS)
        /\ \A t \in Range(FACILITY_TYPES) : t.parent \in Codes(FACILITY_CATEGORIES)

\* the allow-listed sector prefixes present among the input sector rows
SectorPrefixesPresent ==
    IF script = "generate_naics"
    THEN {Prefix(r.code, 2) : r \in {x \in Range(df) : x.level = 2}} \cap Eligible
    ELSE {r.code : r \in {x \in Range(df) : Len(x.code) = 2}} \cap Eligible

\* C2: the sector table has exactly one record per distinct allow-listed
\* sector prefix present in the input, the codes 31, 32, 33 together give the
\* single record "31-33", and no sector record has code 31, 32 or 33.
C2_SectorUniqueness ==
    Generated =>
        LET expected == {FoldParent(p) : p \in SectorPrefixesPresent}
        IN /\ Codes(FACILITY_SECTORS) = expected
           /\ Len(FACILITY_SECTORS) = Cardinality(expected)
           /\ Codes(FACILITY_SECTORS) \cap ManufacturingCodes = {}

\* C3: a category's parent is the first 2 characters of its code with 31, 32,
\* 33 replaced by "31-33"; a facility type's parent is the first 3 characters
\* of its code.
C3_ParentDerivation ==
    Generated =>
        /\ \A c \in Range(FACILITY_CATEGORIES) :
             c.parent = (IF Prefix(c.code, 2) \in ManufacturingCodes
                         THEN Code3133 ELSE Prefix(c.code, 2))
        /\ \A t \in Range(FACILITY_TYPES) : t.parent = Prefix(t.code, 3)

\* the (sector, category, type) chains of records that resolve a type code
Chains(code) ==
    {ch \in Range(FACILITY_SECTORS) \X Range(FACILITY_CATEGORIES) \X Range(FACILITY_TYPES) :
        /\ ch[3].code = code
        /\ ch[2].code = ch[3].parent
        /\ ch[1].code = ch[2].parent}

\* C4: getNAICSDescription returns "sector > category > type" exactly when the
\* whole chain type -> category -> sector exists, returns 'Unknown NAICS code'
\* in every other case, and never throws.
C4_DescribeFallback ==
    (pc = "called" /\ result.op = "getNAICSDescription") =>
        /\ ~result.threw
        /\ IF Chains(result.args[1]) # {}
           THEN \E ch \in Chains(result.args[1]) :
                   result.value = ch[1].title \o Sep \o ch[2].title \o Sep \o ch[3].title
           ELSE result.value = UnknownNAICS

\* whether the three records generateNAICSCode asks for are in the tables
ValidTriple(s, c, t) ==
    /\ \E x \in Range(FACILITY_SECTORS) : x.code = s
    /\ \E x \in Range(FACILITY_CATEGORIES) : x.code = c /\ x.parent = s
    /\ \E x \in Range(FACILITY_TYPES) : x.code = t /\ x.parent = c

\* C5: generateNAICSCode returns typeCode unchanged if and only if the sector
\* exists, the category exists with that sector as parent and the type exists
\* with that category as parent; for every other triple, and so whenever no
\* record of the type has the supplied category as parent, it throws.
C5_ResolveCode ==
    (pc = "called" /\ result.op = "generateNAICSCode") =>
        LET s == result.args[1]
            c == result.args[2]
            t == result.args[3]
        IN /\ ValidTriple(s, c, t) => (~result.threw /\ result.value = t)
           /\ ~ValidTriple(s, c, t) => (result.threw /\ result.value = <<>>)
           /\ (\A x \in Range(FACILITY_TYPES) : x.code = t => x.parent # c) => result.threw

C5_Witness ==
    /\ pc = "called"
    /\ result.op = "generateNAICSCode"
    /\ ~result.threw
    /\ result.value = result.args[3]

\* the part of s from its first to its last character that is not whitespace
Trimmed(s) ==
    LET ns == {i \in 1..Len(s) : ~IsSpace(s[i])}
    IN IF ns = {} THEN <<>>
       ELSE SubSeq(s, CHOOSE i \in ns : \A k \in ns : i <= k,
                      CHOOSE i \in ns : \A k \in ns : i >= k)

\* C6 as stated: a string ending in T loses that marker and is trimmed, every
\* other string is returned unchanged, character for character.
C6_CleanTitleAsStated ==
    fpc # "raw" =>
        IF raw # <<>> /\ raw[Len(raw)] = "T"
        THEN cleaned = Trimmed(SubSeq(raw, 1, Len(raw) - 1))
        ELSE cleaned = raw

\* C6 amended: if the last character of the string that is not whitespace is
\* a T, the result is the text before that T, trimmed; otherwise the result is
\* the whole string trimmed (unchanged when it has no surrounding whitespace).
C6_CleanTitle ==
    fpc # "raw" =>
        LET ns   == {i \in 1..Len(raw) : ~IsSpace(raw[i])}
            last == IF ns = {} THEN 0 ELSE CHOOSE i \in ns : \A k \in ns : i >= k
        IN IF last > 0 /\ raw[last] = "T"
           THEN cleaned = Trimmed(SubSeq(raw, 1, last - 1))
           ELSE /\ cleaned = Trimmed(raw)
                /\ (raw = <<>> \/ (1 \in ns /\ Len(raw) \in ns)) => cleaned = raw

C6_Witness ==
    /\ fpc = "cleaned"
    /\ raw = <<"a", "T", " ">>
    /\ cleaned = <<"a">>

NonDecreasingTitles(table) ==
    \A i, j \in DOMAIN table : i < j => ~StrLess(table[j].title, table[i].title)

\* the codes of the loaded rows of code length n with an allow-listed prefix,
\* in row order
SourceCodes(n) ==
    LET rows == SelectSeq(df, LAMBDA r : Len(r.code) = n /\ Prefix(r.code, 2) \in Eligible)
    IN [i \in 1..Len(rows) |-> rows[i].code]

TableCodes(table) == [i \in DOMAIN table |-> table[i].code]

\* C7: clean_naics.py emits each of the three tables in non-decreasing order
\* of the title the consumer reads; extract_naics.py emits categories and
\* facility types in source row order.
C7_SortOrder ==
    Generated =>
        /\ script = "clean_naics" =>
             /\ NonDecreasingTitles(FACILITY_SECTORS)
             /\ NonDecreasingTitles(FACILITY_CATEGORIES)
             /\ NonDecreasingTitles(FACILITY_TYPES)
        /\ script = "extract_naics" =>
             /\ TableCodes(FACILITY_CATEGORIES) = SourceCodes(3)
             /\ TableCodes(FACILITY_TYPES) = SourceCodes(6)

\* C8: the escaped title between the emitter's double quotes is one literal
\* that ends at the closing quote and reads back as the cleaned title.
C8_EscapeRoundTrip ==
    fpc = "emitted" =>
        /\ ReadLiteral(literal).ok
        /\ ReadLiteral(literal).end = Len(literal)
        /\ ReadLiteral(literal).value = cleaned

\* C9: every sector record is an allow-listed sector (31, 32, 33 as "31-33"),
\* every category and facility-type code starts with an allow-listed prefix,
\* and no loaded row of code length 3 or 6 with an allow-listed prefix is
\* missing from its table.
C9_AllowList ==
    Generated =>
        /\ Codes(FACILITY_SECTORS) \subseteq ((Eligible \ ManufacturingCodes) \cup {Code3133})
        /\ \A r \in Range(FACILITY_CATEGORIES) \cup Range(FACILITY_TYPES) :
             Prefix(r.code, 2) \in Eligible
        /\ \A r \in Range(df) :
             (Len(r.code) = 3 /\ Prefix(r.code, 2) \in Eligible)
                => r.code \in Codes(FACILITY_CATEGORIES)
        /\ \A r \in Range(df) :
             (Len(r.code) = 6 /\ Prefix(r.code, 2) \in Eligible)
                => r.code \in Codes(FACILITY_TYPES)

\* C10: when the workbook or its sheet is missing the run ends with the output
\* file as it was before, and the output differs from what it was only after
\* the load has succeeded.
C10_InputNotFound ==
    /\ pc = "aborted" => outFile = outPrior
    /\ outFile # outPrior =>
         /\ workbook = "ok"
         /\ pc \in {"opened", "sectors", "categories", "types", "done", "called"}

C10_Witness ==
    /\ pc = "aborted"
    /\ workbook = "nosheet"
    /\ outPrior = Old
    /\ outFile = Old

====
